---- MODULE Spec2Model ----
(***************************************************************************)
(* A model of the VIC-20 system layer of src/systems/vic20.h: the instance *)
(* state vic20_t, its construction, and the public operations reset, tick, *)
(* exec, key-down/up, joystick, quickload and discard.  The CPU, the two   *)
(* M6522 chips, the M6561, the keyboard matrix and the memory mapper are   *)
(* external headers; they appear as the small abstract states the system   *)
(* layer hands to them.                                                    *)
(***************************************************************************)
EXTENDS Integers, Sequences, FiniteSets, TLC

VARIABLES sys, desc, op, ret, trace, press, steps

vars == <<sys, desc, op, ret, trace, press, steps>>

(***************************************************************************)
(* Bounds of the exploration.                                              *)
(***************************************************************************)
MaxSteps == 3
MaxPayload == 2
MaxUs == 2

(***************************************************************************)
(* Program constants.                                                      *)
(***************************************************************************)
VIC20_FREQUENCY == 1108404
VIC20_MAX_AUDIO_SAMPLES == 1024
VIC20_DEFAULT_AUDIO_SAMPLES == 128
VIC20_STD_DISPLAY_WIDTH == 232
VIC20_STD_DISPLAY_HEIGHT == 304
VIC20_JOYSTICKTYPE_NONE == 0
VIC20_JOYSTICKTYPE_DIGITAL_1 == 1
VIC20_JOYSTICKTYPE_DIGITAL_2 == 2
VIC20_JOYSTICKTYPE_DIGITAL_12 == 3
VIC20_JOYSTICK_UP == 1
VIC20_JOYSTICK_DOWN == 2
VIC20_JOYSTICK_LEFT == 4
VIC20_JOYSTICK_RIGHT == 8
VIC20_JOYSTICK_BTN == 16
RAM0_SIZE == 1024
RAM1_SIZE == 4096
ROM_CHAR_SIZE == 4096
ROM_BASIC_SIZE == 8192
ROM_KERNAL_SIZE == 8192

JoystickTypes ==
    {VIC20_JOYSTICKTYPE_NONE, VIC20_JOYSTICKTYPE_DIGITAL_1,
     VIC20_JOYSTICKTYPE_DIGITAL_2, VIC20_JOYSTICKTYPE_DIGITAL_12}

Byte == 0..255

(***************************************************************************)
(* uint8_t bit operations.                                                 *)
(***************************************************************************)
RECURSIVE BitAnd(_, _)
BitAnd(a, b) ==
    IF a = 0 \/ b = 0 THEN 0
    ELSE (a % 2) * (b % 2) + 2 * BitAnd(a \div 2, b \div 2)

RECURSIVE BitOr(_, _)
BitOr(a, b) ==
    IF a = 0 THEN b
    ELSE IF b = 0 THEN a
    ELSE (IF a % 2 = 1 \/ b % 2 = 1 THEN 1 ELSE 0) + 2 * BitOr(a \div 2, b \div 2)

\* (uint8_t) ~m
BitNot8(m) == 255 - (m % 256)

(***************************************************************************)
(* Byte arrays of vic20_t.  An array is kept as the image it was filled    *)
(* from plus the bytes that differ from that image; image 0 is the zero    *)
(* fill of memset.  A patch never holds a byte equal to the image, so two  *)
(* arrays with the same contents are the same value.                       *)
(***************************************************************************)
ImageByte(img, i) == IF img = 0 THEN 0 ELSE (img * 37 + i * 3 + (i \div 256)) % 256

NoPatch == [i \in {} |-> 0]

ArrFill(img, size) == [img |-> img, size |-> size, patch |-> NoPatch]

ArrRd(arr, i) == IF i \in DOMAIN arr.patch THEN arr.patch[i] ELSE ImageByte(arr.img, i)

ArrWr(arr, i, v) ==
    IF v = ImageByte(arr.img, i)
    THEN [arr EXCEPT !.patch = [j \in (DOMAIN arr.patch) \ {i} |-> arr.patch[j]]]
    ELSE [arr EXCEPT !.patch = [j \in (DOMAIN arr.patch) \cup {i} |->
                                    IF j = i THEN v ELSE arr.patch[j]]]

(***************************************************************************)
(* The memory mapper (chips/mem.h).  mem_cpu is the list of windows in the *)
(* order vic20_init maps them: start address, length argument, backing     *)
(* array and whether the window is writable.                               *)
(***************************************************************************)
mem_map_ram(mem, addr, size, ptr) ==
    Append(mem, [addr |-> addr, size |-> size, ptr |-> ptr, rw |-> TRUE])

mem_map_rom(mem, addr, size, ptr) ==
    Append(mem, [addr |-> addr, size |-> size, ptr |-> ptr, rw |-> FALSE])

\* the windows a 16-bit address falls into
Owners(mem, a) ==
    {k \in DOMAIN mem : mem[k].addr <= a /\ a < mem[k].addr + mem[k].size}

\* the bytes a read of address a through the mapper can deliver: the byte
\* of the backing array of a window that covers a, any byte when the
\* window's offset lies beyond its backing array, 0xFF on open bus
mem_rd(s, a) ==
    IF Owners(s.mem_cpu, a) = {} THEN {255}
    ELSE UNION { LET w == s.mem_cpu[k]
                     off == a - w.addr
                 IN  IF off < s[w.ptr].size THEN {ArrRd(s[w.ptr], off)} ELSE Byte
                 : k \in Owners(s.mem_cpu, a) }

IsRamAddr(s, a) ==
    /\ Owners(s.mem_cpu, a) # {}
    /\ \A k \in Owners(s.mem_cpu, a) : s.mem_cpu[k].rw

IsRomAddr(s, a) == \E k \in Owners(s.mem_cpu, a) : ~s.mem_cpu[k].rw

(***************************************************************************)
(* The external chips as the system layer sees them: whether the chip is   *)
(* in its state after init or after reset, how often it was ticked and     *)
(* the level of its interrupt output.                                      *)
(***************************************************************************)
ChipInit == [st |-> "init", ticks |-> 0, irq |-> FALSE]

m6522_reset(c) == [c EXCEPT !.st = "reset", !.irq = FALSE]

m6561_reset(c) == [c EXCEPT !.st = "reset", !.irq = FALSE]

\* the pin masks m6502_init can return: the RESET line requested or not
CpuInitPins == {{"RW", "SYNC"}, {"RW", "SYNC", "RES"}}

\* kbd_init: an empty key matrix
kbd_init == {}

kbd_key_down(kbd, key_code) == kbd \cup {key_code}

kbd_key_up(kbd, key_code) == kbd \ {key_code}

\* clk_us_to_ticks of chips/clk.h; the product is formed in 64 bits and
\* the quotient fits uint32_t for every duration up to MaxUs
clk_us_to_ticks(freq_hz, micro_seconds) ==
    (freq_hz * micro_seconds) \div 1000000

(***************************************************************************)
(* The M6561 as far as the system layer uses its header: the raster        *)
(* totals that size the frame buffer and the display size it reports.      *)
(***************************************************************************)
M6561_HTOTAL == 71

M6561_VTOTAL == 312

m6561_display_width(vic) == VIC20_STD_DISPLAY_WIDTH

m6561_display_height(vic) == VIC20_STD_DISPLAY_HEIGHT

\* _VIC20_DISPLAY_SIZE
VIC20_DISPLAY_SIZE == ((M6561_HTOTAL + 1) * 8) * (M6561_VTOTAL + 1) * 4

(***************************************************************************)
(* vic20_desc_t: the joystick type, the pixel buffer (given or not) and    *)
(* its size, the audio sample count and the three ROM images with their    *)
(* sizes; ROM image 0 is the null pointer.                                 *)
(***************************************************************************)
BaseDesc(type) ==
    [joystick_type |-> type,
     pixel_buffer |-> FALSE, pixel_buffer_size |-> 0,
     audio_num_samples |-> 0,
     rom_char |-> 1, rom_char_size |-> ROM_CHAR_SIZE,
     rom_basic |-> 2, rom_basic_size |-> ROM_BASIC_SIZE,
     rom_kernal |-> 3, rom_kernal_size |-> ROM_KERNAL_SIZE]

\* the descriptions passed to vic20_init: the plain one for each joystick
\* type and the ones that differ from it in the pixel buffer, the sample
\* count, or one ROM pointer or ROM size
Descs ==
    {BaseDesc(t) : t \in JoystickTypes}
    \cup {[BaseDesc(VIC20_JOYSTICKTYPE_NONE) EXCEPT !.pixel_buffer = TRUE,
                                                    !.pixel_buffer_size = n] :
              n \in {VIC20_DISPLAY_SIZE - 1, VIC20_DISPLAY_SIZE}}
    \cup {[BaseDesc(VIC20_JOYSTICKTYPE_NONE) EXCEPT !.audio_num_samples = n] :
              n \in {VIC20_MAX_AUDIO_SAMPLES, VIC20_MAX_AUDIO_SAMPLES + 1}}
    \cup {[BaseDesc(VIC20_JOYSTICKTYPE_NONE) EXCEPT !.rom_char = 0],
          [BaseDesc(VIC20_JOYSTICKTYPE_NONE) EXCEPT !.rom_basic = 0],
          [BaseDesc(VIC20_JOYSTICKTYPE_NONE) EXCEPT !.rom_kernal = 0],
          [BaseDesc(VIC20_JOYSTICKTYPE_NONE) EXCEPT !.rom_char_size = ROM_BASIC_SIZE],
          [BaseDesc(VIC20_JOYSTICKTYPE_NONE) EXCEPT !.rom_basic_size = ROM_CHAR_SIZE],
          [BaseDesc(VIC20_JOYSTICKTYPE_NONE) EXCEPT !.rom_kernal_size = ROM_KERNAL_SIZE - 1]}

\* _VIC20_DEFAULT(val, def)
VIC20_DEFAULT(val, def) == IF val # 0 THEN val ELSE def

\* the assertions with > for >= in the check of the pixel buffer size
vic20_init_asserts_gt(d) ==
    /\ ~d.pixel_buffer \/ d.pixel_buffer_size > VIC20_DISPLAY_SIZE
    /\ d.rom_char # 0 /\ d.rom_char_size = ROM_CHAR_SIZE
    /\ d.rom_basic # 0 /\ d.rom_basic_size = ROM_BASIC_SIZE
    /\ d.rom_kernal # 0 /\ d.rom_kernal_size = ROM_KERNAL_SIZE
    /\ VIC20_DEFAULT(d.audio_num_samples, VIC20_DEFAULT_AUDIO_SAMPLES) <= VIC20_MAX_AUDIO_SAMPLES

\* the CHIPS_ASSERTs of vic20_init on the description: TRUE when all hold
vic20_init_asserts(d) ==
    /\ ~d.pixel_buffer \/ d.pixel_buffer_size >= VIC20_DISPLAY_SIZE
    /\ d.rom_char # 0 /\ d.rom_char_size = ROM_CHAR_SIZE
    /\ d.rom_basic # 0 /\ d.rom_basic_size = ROM_BASIC_SIZE
    /\ d.rom_kernal # 0 /\ d.rom_kernal_size = ROM_KERNAL_SIZE
    /\ VIC20_DEFAULT(d.audio_num_samples, VIC20_DEFAULT_AUDIO_SAMPLES) <= VIC20_MAX_AUDIO_SAMPLES

\* vic20_init: the instance after construction from d, with p the pin mask
\* returned by m6502_init
vic20_init_upd(d, p) ==
    [pins |-> p,
     cpu |-> [ticks |-> 0],
     via_1 |-> ChipInit,
     via_2 |-> ChipInit,
     vic |-> ChipInit,
     valid |-> TRUE,
     joystick_type |-> d.joystick_type,
     num_samples |-> VIC20_DEFAULT(d.audio_num_samples, VIC20_DEFAULT_AUDIO_SAMPLES),
     kbd_joy1_mask |-> 0,
     kbd_joy2_mask |-> 0,
     joy_joy1_mask |-> 0,
     joy_joy2_mask |-> 0,
     kbd |-> kbd_init,
     mem_cpu |-> mem_map_rom(mem_map_rom(mem_map_rom(mem_map_ram(mem_map_ram(<<>>,
                    0, 1024, "ram0"),
                    4096, 4096, "ram1"),
                    32768, 4096, "rom_char"),
                    49152, 57343, "rom_basic"),
                    57344, 65535, "rom_kernal"),
     ram0 |-> ArrFill(0, RAM0_SIZE),
     ram1 |-> ArrFill(0, RAM1_SIZE),
     rom_char |-> ArrFill(d.rom_char, ROM_CHAR_SIZE),
     rom_basic |-> ArrFill(d.rom_basic, ROM_BASIC_SIZE),
     rom_kernal |-> ArrFill(d.rom_kernal, ROM_KERNAL_SIZE)]

NoOp == [name |-> "vic20_init"]

\* no key-down is pending
NoPress == [key |-> -1, joy1 |-> 0, joy2 |-> 0, kbd |-> {}]

Init ==
    /\ desc \in {d \in Descs : vic20_init_asserts(d)}
    /\ press = NoPress
    /\ \E p \in CpuInitPins : sys = vic20_init_upd(desc, p)
    /\ op = NoOp
    /\ ret = "void"
    /\ trace = << <<"kbd_init">> >>
    /\ steps = 0

(***************************************************************************)
(* The operations.  Each is a function from the instance (and the call's   *)
(* arguments) to the instance after the call, the value returned and the   *)
(* calls made to the external modules and to _vic20_tick, in order, each   *)
(* with the arguments that tell it from the others: a tick with the pin    *)
(* mask it was given and the pin mask it returned.                         *)
(***************************************************************************)
Result(s, r, t) == [sys |-> s, ret |-> r, trace |-> t]

vic20_discard_upd(s) == Result([s EXCEPT !.valid = FALSE], "void", <<>>)

\* vic20_reset that leaves the masks set by vic20_joystick as they are
vic20_reset_upd_keepjoy(s) ==
    Result([s EXCEPT !.kbd_joy1_mask = 0,
                     !.kbd_joy2_mask = 0,
                     !.pins = s.pins \cup {"RES"},
                     !.via_1 = m6522_reset(s.via_1),
                     !.via_2 = m6522_reset(s.via_2),
                     !.vic = m6561_reset(s.vic)],
           "void",
           << <<"m6522_reset", "via_1">>, <<"m6522_reset", "via_2">>, <<"m6561_reset", "vic">> >>)

\* vic20_reset that toggles the RESET line (^=) instead of setting it (|=)
vic20_reset_upd_toggle(s) ==
    Result([s EXCEPT !.kbd_joy1_mask = 0,
                     !.kbd_joy2_mask = 0,
                     !.joy_joy1_mask = 0,
                     !.joy_joy2_mask = 0,
                     !.pins = IF "RES" \in s.pins THEN s.pins \ {"RES"}
                              ELSE s.pins \cup {"RES"},
                     !.via_1 = m6522_reset(s.via_1),
                     !.via_2 = m6522_reset(s.via_2),
                     !.vic = m6561_reset(s.vic)],
           "void",
           << <<"m6522_reset", "via_1">>, <<"m6522_reset", "via_2">>, <<"m6561_reset", "vic">> >>)

vic20_reset_upd(s) ==
    Result([s EXCEPT !.kbd_joy1_mask = 0,
                     !.kbd_joy2_mask = 0,
                     !.joy_joy1_mask = 0,
                     !.joy_joy2_mask = 0,
                     !.pins = s.pins \cup {"RES"},
                     !.via_1 = m6522_reset(s.via_1),
                     !.via_2 = m6522_reset(s.via_2),
                     !.vic = m6561_reset(s.vic)],
           "void",
           << <<"m6522_reset", "via_1">>, <<"m6522_reset", "via_2">>, <<"m6561_reset", "vic">> >>)

\* _vic20_tick: the instance and the pin mask after one system tick
vic20_tick_pins(s, pins) == [sys |-> s, pins |-> pins, trace |-> <<>>]

vic20_tick_upd(s) ==
    LET t == vic20_tick_pins(s, s.pins)
    IN  Result([t.sys EXCEPT !.pins = t.pins], "void",
               << <<"_vic20_tick", s.pins, t.pins>> >> \o t.trace)

\* the loop of vic20_exec: n more ticks from instance s with pin mask pins
RECURSIVE ExecLoop(_, _, _, _)
ExecLoop(s, pins, n, tr) ==
    IF n = 0 THEN [sys |-> s, pins |-> pins, trace |-> tr]
    ELSE LET t == vic20_tick_pins(s, pins)
         IN  ExecLoop(t.sys, t.pins, n - 1,
                      (tr \o << <<"_vic20_tick", pins, t.pins>> >>) \o t.trace)

\* vic20_exec with the keyboard update inside the loop, once per tick
vic20_exec_upd_pertick(s, micro_seconds) ==
    LET num_ticks == clk_us_to_ticks(VIC20_FREQUENCY, micro_seconds)
        l == ExecLoop(s, s.pins, num_ticks, <<>>)
    IN  Result([l.sys EXCEPT !.pins = l.pins], "void",
               [i \in 1..(2 * Len(l.trace)) |->
                    IF i % 2 = 1 THEN l.trace[(i + 1) \div 2] ELSE <<"kbd_update">>])

vic20_exec_upd(s, micro_seconds) ==
    LET num_ticks == clk_us_to_ticks(VIC20_FREQUENCY, micro_seconds)
        l == ExecLoop(s, s.pins, num_ticks, <<>>)
    IN  Result([l.sys EXCEPT !.pins = l.pins], "void", l.trace \o << <<"kbd_update">> >>)

\* the switch with the cases of the left and the right key exchanged
JoyKeyMask_swapped(key_code) ==
    CASE key_code = 32 -> VIC20_JOYSTICK_BTN
      [] key_code = 8 -> VIC20_JOYSTICK_RIGHT
      [] key_code = 9 -> VIC20_JOYSTICK_LEFT
      [] key_code = 10 -> VIC20_JOYSTICK_DOWN
      [] key_code = 11 -> VIC20_JOYSTICK_UP
      [] OTHER -> 0

\* the switch on key_code of vic20_key_down and vic20_key_up
JoyKeyMask(key_code) ==
    CASE key_code = 32 -> VIC20_JOYSTICK_BTN
      [] key_code = 8 -> VIC20_JOYSTICK_LEFT
      [] key_code = 9 -> VIC20_JOYSTICK_RIGHT
      [] key_code = 10 -> VIC20_JOYSTICK_DOWN
      [] key_code = 11 -> VIC20_JOYSTICK_UP
      [] OTHER -> 0

\* vic20_key_down whose switch has no default case: with emulation enabled
\* a key code that is not a joystick key is dropped
vic20_key_down_upd_nodefault(s, key_code) ==
    IF s.joystick_type = VIC20_JOYSTICKTYPE_NONE
    THEN Result([s EXCEPT !.kbd = kbd_key_down(s.kbd, key_code)], "void", << <<"kbd_key_down", key_code>> >>)
    ELSE LET m == JoyKeyMask(key_code)
         IN  IF m = 0
             THEN Result(s, "void", <<>>)
             ELSE CASE s.joystick_type = VIC20_JOYSTICKTYPE_DIGITAL_1 ->
                         Result([s EXCEPT !.kbd_joy1_mask = BitOr(s.kbd_joy1_mask, m)],
                                "void", <<>>)
                    [] s.joystick_type = VIC20_JOYSTICKTYPE_DIGITAL_2 ->
                         Result([s EXCEPT !.kbd_joy2_mask = BitOr(s.kbd_joy2_mask, m)],
                                "void", <<>>)
                    [] s.joystick_type = VIC20_JOYSTICKTYPE_DIGITAL_12 ->
                         Result([s EXCEPT !.kbd_joy1_mask = BitOr(s.kbd_joy1_mask, m),
                                          !.kbd_joy2_mask = BitOr(s.kbd_joy2_mask, m)],
                                "void", <<>>)
                    [] OTHER -> Result(s, "void", <<>>)

vic20_key_down_upd(s, key_code) ==
    IF s.joystick_type = VIC20_JOYSTICKTYPE_NONE
    THEN Result([s EXCEPT !.kbd = kbd_key_down(s.kbd, key_code)], "void", << <<"kbd_key_down", key_code>> >>)
    ELSE LET m == JoyKeyMask(key_code)
         IN  IF m = 0
             THEN Result([s EXCEPT !.kbd = kbd_key_down(s.kbd, key_code)],
                         "void", << <<"kbd_key_down", key_code>> >>)
             ELSE CASE s.joystick_type = VIC20_JOYSTICKTYPE_DIGITAL_1 ->
                         Result([s EXCEPT !.kbd_joy1_mask = BitOr(s.kbd_joy1_mask, m)],
                                "void", <<>>)
                    [] s.joystick_type = VIC20_JOYSTICKTYPE_DIGITAL_2 ->
                         Result([s EXCEPT !.kbd_joy2_mask = BitOr(s.kbd_joy2_mask, m)],
                                "void", <<>>)
                    [] s.joystick_type = VIC20_JOYSTICKTYPE_DIGITAL_12 ->
                         Result([s EXCEPT !.kbd_joy1_mask = BitOr(s.kbd_joy1_mask, m),
                                          !.kbd_joy2_mask = BitOr(s.kbd_joy2_mask, m)],
                                "void", <<>>)
                    [] OTHER -> Result(s, "void", <<>>)

vic20_key_up_upd(s, key_code) ==
    IF s.joystick_type = VIC20_JOYSTICKTYPE_NONE
    THEN Result([s EXCEPT !.kbd = kbd_key_up(s.kbd, key_code)], "void", << <<"kbd_key_up", key_code>> >>)
    ELSE LET m == JoyKeyMask(key_code)
         IN  IF m = 0
             THEN Result([s EXCEPT !.kbd = kbd_key_up(s.kbd, key_code)],
                         "void", << <<"kbd_key_up", key_code>> >>)
             ELSE CASE s.joystick_type = VIC20_JOYSTICKTYPE_DIGITAL_1 ->
                         Result([s EXCEPT !.kbd_joy1_mask = BitAnd(s.kbd_joy1_mask, BitNot8(m))],
                                "void", <<>>)
                    [] s.joystick_type = VIC20_JOYSTICKTYPE_DIGITAL_2 ->
                         Result([s EXCEPT !.kbd_joy2_mask = BitAnd(s.kbd_joy2_mask, BitNot8(m))],
                                "void", <<>>)
                    [] s.joystick_type = VIC20_JOYSTICKTYPE_DIGITAL_12 ->
                         Result([s EXCEPT !.kbd_joy1_mask = BitAnd(s.kbd_joy1_mask, BitNot8(m)),
                                          !.kbd_joy2_mask = BitAnd(s.kbd_joy2_mask, BitNot8(m))],
                                "void", <<>>)
                    [] OTHER -> Result(s, "void", <<>>)

vic20_joystick_type_upd(s) == Result(s, s.joystick_type, <<>>)

vic20_display_width_upd(s) ==
    Result(s, m6561_display_width(s.vic), << <<"m6561_display_width">> >>)

vic20_display_height_upd(s) ==
    Result(s, m6561_display_height(s.vic), << <<"m6561_display_height">> >>)

vic20_set_joystick_type_upd(s, type) ==
    Result([s EXCEPT !.joystick_type = type], "void", <<>>)

vic20_joystick_upd(s, joy1_mask, joy2_mask) ==
    Result([s EXCEPT !.joy_joy1_mask = joy1_mask % 256,
                     !.joy_joy2_mask = joy2_mask % 256],
           "void", <<>>)

\* a port-in callback that returns 0 where the code returns ~0
vic20_via1_in_zero(s, port_id) == 0

\* the port-in callbacks of the two M6522: (uint8_t) ~0
vic20_via1_in(s, port_id) == BitNot8(0)

vic20_via2_in(s, port_id) == BitNot8(0)

\* a write through the mapper: stored in the backing array of a RAM window,
\* dropped anywhere else
mem_wr(s, a, v) ==
    IF IsRamAddr(s, a)
    THEN LET w == s.mem_cpu[CHOOSE k \in Owners(s.mem_cpu, a) : TRUE]
         IN  [s EXCEPT ![w.ptr] = ArrWr(s[w.ptr], a - w.addr, v)]
    ELSE s

RECURSIVE CopyPayload(_, _, _)
CopyPayload(s, ptr, i) ==
    IF i > Len(ptr) THEN s
    ELSE CopyPayload(mem_wr(s, ptr[1] + 256 * ptr[2] + (i - 3), ptr[i]), ptr, i + 1)

\* a best-effort vic20_quickload: copies what lands in RAM and reports
\* failure when a byte did not
vic20_quickload_upd_besteffort(s, ptr) ==
    IF Len(ptr) < 2 THEN Result(s, FALSE, <<>>)
    ELSE Result(CopyPayload(s, ptr, 3),
                \A i \in 3..Len(ptr) : IsRamAddr(s, ptr[1] + 256 * ptr[2] + (i - 3)),
                <<>>)

\* vic20_quickload with ptr the num_bytes bytes of the buffer
vic20_quickload_upd(s, ptr) == Result(s, FALSE, <<>>)

(***************************************************************************)
(* The inputs of the calls.                                                *)
(***************************************************************************)
\* the five joystick key codes and one ordinary key
KeyCodes == {32, 8, 9, 10, 11, 65}

\* the masks passed to vic20_joystick
JoyArgs == {<<0, 0>>, <<17, 0>>, <<0, 10>>, <<255, 31>>}

\* quickload buffers: a little-endian load address and n payload bytes
LoadAddrs == {4097, 1023, 32768, 57343}

PayloadByte(i) == IF i = 1 THEN 169 ELSE IF i = 2 THEN 66 ELSE (96 + i) % 256

PrgBuf(a, n) ==
    <<a % 256, a \div 256>> \o [i \in 1..n |-> PayloadByte(i)]

QuickloadBufs == {PrgBuf(a, n) : a \in LoadAddrs, n \in 0..MaxPayload} \cup {<<1>>}

\* the load address and the payload of a buffer that holds a full header
LoadAddr(ptr) == ptr[1] + 256 * ptr[2]

Payload(ptr) == SubSeq(ptr, 3, Len(ptr))

(***************************************************************************)
(* The actions: one per public operation.  A call whose CHIPS_ASSERT       *)
(* holds runs the operation; a call whose CHIPS_ASSERT fails aborts the    *)
(* process, after which no operation runs.  press remembers the last       *)
(* key-down while only vic20_set_joystick_type calls have followed it:     *)
(* its key code and the keyboard masks and the matrix before it.           *)
(***************************************************************************)
Aborted == op.name = "CHIPS_ASSERT"

NextPress(o, s) ==
    IF o.name = "vic20_key_down"
    THEN [key |-> o.arg, joy1 |-> s.kbd_joy1_mask, joy2 |-> s.kbd_joy2_mask, kbd |-> s.kbd]
    ELSE IF o.name = "vic20_set_joystick_type" THEN press
    ELSE NoPress

Call(o, r) ==
    /\ ~Aborted
    /\ steps < MaxSteps
    /\ steps' = steps + 1
    /\ op' = o
    /\ sys' = r.sys
    /\ ret' = r.ret
    /\ trace' = r.trace
    /\ press' = NextPress(o, sys)

Fatal(o) ==
    /\ ~Aborted
    /\ steps < MaxSteps
    /\ steps' = steps + 1
    /\ op' = [name |-> "CHIPS_ASSERT", arg |-> o]
    /\ trace' = <<>>
    /\ press' = NoPress
    /\ UNCHANGED <<sys, ret, desc>>

vic20_init ==
    \E d \in Descs, p \in CpuInitPins :
        IF vic20_init_asserts(d)
        THEN /\ desc' = d
             /\ Call([name |-> "vic20_init"],
                     Result(vic20_init_upd(d, p), "void", << <<"kbd_init">> >>))
        ELSE Fatal([name |-> "vic20_init", arg |-> d])

vic20_discard ==
    IF sys.valid
    THEN Call([name |-> "vic20_discard"], vic20_discard_upd(sys)) /\ UNCHANGED desc
    ELSE Fatal([name |-> "vic20_discard"])

vic20_display_width ==
    IF sys.valid
    THEN Call([name |-> "vic20_display_width"], vic20_display_width_upd(sys))
         /\ UNCHANGED desc
    ELSE Fatal([name |-> "vic20_display_width"])

vic20_display_height ==
    IF sys.valid
    THEN Call([name |-> "vic20_display_height"], vic20_display_height_upd(sys))
         /\ UNCHANGED desc
    ELSE Fatal([name |-> "vic20_display_height"])

vic20_reset ==
    IF sys.valid
    THEN Call([name |-> "vic20_reset"], vic20_reset_upd(sys)) /\ UNCHANGED desc
    ELSE Fatal([name |-> "vic20_reset"])

\* vic20_tick carries no CHIPS_ASSERT
vic20_tick ==
    /\ Call([name |-> "vic20_tick"], vic20_tick_upd(sys))
    /\ UNCHANGED desc

vic20_exec ==
    \E us \in 0..MaxUs :
        IF sys.valid
        THEN Call([name |-> "vic20_exec", arg |-> us], vic20_exec_upd(sys, us))
             /\ UNCHANGED desc
        ELSE Fatal([name |-> "vic20_exec", arg |-> us])

vic20_key_down ==
    \E k \in KeyCodes :
        IF sys.valid
        THEN Call([name |-> "vic20_key_down", arg |-> k], vic20_key_down_upd(sys, k))
             /\ UNCHANGED desc
        ELSE Fatal([name |-> "vic20_key_down", arg |-> k])

vic20_key_up ==
    \E k \in KeyCodes :
        IF sys.valid
        THEN Call([name |-> "vic20_key_up", arg |-> k], vic20_key_up_upd(sys, k))
             /\ UNCHANGED desc
        ELSE Fatal([name |-> "vic20_key_up", arg |-> k])

vic20_set_joystick_type ==
    \E t \in JoystickTypes :
        IF sys.valid
        THEN Call([name |-> "vic20_set_joystick_type", arg |-> t],
                  vic20_set_joystick_type_upd(sys, t))
             /\ UNCHANGED desc
        ELSE Fatal([name |-> "vic20_set_joystick_type", arg |-> t])

vic20_joystick_type ==
    IF sys.valid
    THEN Call([name |-> "vic20_joystick_type"], vic20_joystick_type_upd(sys))
         /\ UNCHANGED desc
    ELSE Fatal([name |-> "vic20_joystick_type"])

vic20_joystick ==
    \E j \in JoyArgs :
        IF sys.valid
        THEN Call([name |-> "vic20_joystick", arg |-> j],
                  vic20_joystick_upd(sys, j[1], j[2]))
             /\ UNCHANGED desc
        ELSE Fatal([name |-> "vic20_joystick", arg |-> j])

\* CHIPS_ASSERT(sys && sys->valid && ptr && (num_bytes > 0))
vic20_quickload ==
    \E b \in QuickloadBufs :
        IF sys.valid /\ Len(b) > 0
        THEN Call([name |-> "vic20_quickload", arg |-> b], vic20_quickload_upd(sys, b))
             /\ UNCHANGED desc
        ELSE Fatal([name |-> "vic20_quickload", arg |-> b])

Next ==
    \/ vic20_init
    \/ vic20_discard
    \/ vic20_display_width
    \/ vic20_display_height
    \/ vic20_reset
    \/ vic20_tick
    \/ vic20_exec
    \/ vic20_key_down
    \/ vic20_key_up
    \/ vic20_set_joystick_type
    \/ vic20_joystick_type
    \/ vic20_joystick
    \/ vic20_quickload

Spec == Init /\ [][Next]_vars

(***************************************************************************)
(* Vocabulary of the properties.                                           *)
(***************************************************************************)
\* the set of bit positions set in a byte
Bits(m) == {i \in 0..7 : (m \div (2 ^ i)) % 2 = 1}

\* the five joystick key codes and the bit position each stands for
\* (0 up, 1 down, 2 left, 3 right, 4 button)
DesignatedBit == (32 :> 4) @@ (8 :> 2) @@ (9 :> 3) @@ (10 :> 1) @@ (11 :> 0)

DesignatedKeys == DOMAIN DesignatedBit

Active1(type) == type \in {VIC20_JOYSTICKTYPE_DIGITAL_1, VIC20_JOYSTICKTYPE_DIGITAL_12}

Active2(type) == type \in {VIC20_JOYSTICKTYPE_DIGITAL_2, VIC20_JOYSTICKTYPE_DIGITAL_12}

\* the byte arrays the CPU can see through the memory map
Memory(s) == <<s.ram0, s.ram1, s.rom_char, s.rom_basic, s.rom_kernal>>

JoyMasks(s) == <<s.kbd_joy1_mask, s.kbd_joy2_mask, s.joy_joy1_mask, s.joy_joy2_mask>>

HasHeader(ptr) == Len(ptr) >= 2

\* the addresses the payload of a buffer is destined for
DestRange(ptr) == {LoadAddr(ptr) + i : i \in 0..(Len(ptr) - 3)}

AllInRam(s, ptr) == HasHeader(ptr) /\ \A a \in DestRange(ptr) : IsRamAddr(s, a)

TouchesRom(s, ptr) == HasHeader(ptr) /\ \E a \in DestRange(ptr) : IsRomAddr(s, a)

(***************************************************************************)
(* C1: a quickload of a buffer with a little-endian load address A and n   *)
(* payload bytes that all land in RAM windows returns success and leaves   *)
(* payload byte i readable at address A+i.                                 *)
(***************************************************************************)
C1_QuickloadStoresPayload ==
    (op.name = "vic20_quickload" /\ AllInRam(sys, op.arg)) =>
        /\ ret = TRUE
        /\ \A i \in 1..Len(Payload(op.arg)) :
               mem_rd(sys, LoadAddr(op.arg) + i - 1) = {Payload(op.arg)[i]}

(***************************************************************************)
(* C2: a quickload whose destination range touches a ROM window returns    *)
(* failure, and a quickload that returns failure leaves every byte array   *)
(* behind the memory map, and the map itself, as before the call.          *)
(***************************************************************************)
C2_FailedLoadRejected ==
    [][op'.name = "vic20_quickload" =>
          /\ TouchesRom(sys, op'.arg) => ret' = FALSE
          /\ ret' = FALSE => (Memory(sys') = Memory(sys) /\ sys'.mem_cpu = sys.mem_cpu)]_vars

C2_Witness ==
    /\ op.name = "vic20_quickload"
    /\ TouchesRom(sys, op.arg)
    /\ Len(Payload(op.arg)) = 2
    /\ ret = FALSE

(***************************************************************************)
(* C3: after construction and any sequence of calls the three ROM arrays   *)
(* equal the images given to vic20_init, and a read of any address of the  *)
(* character (0x8000..0x8FFF), BASIC (0xC000..0xDFFF) or KERNAL            *)
(* (0xE000..0xFFFF) ROM window delivers the byte of the image.             *)
(***************************************************************************)
C3_RomImmutable ==
    /\ sys.rom_char = ArrFill(desc.rom_char, ROM_CHAR_SIZE)
    /\ sys.rom_basic = ArrFill(desc.rom_basic, ROM_BASIC_SIZE)
    /\ sys.rom_kernal = ArrFill(desc.rom_kernal, ROM_KERNAL_SIZE)
    /\ \A a \in 32768..36863 : mem_rd(sys, a) = {ImageByte(desc.rom_char, a - 32768)}
    /\ \A a \in 49152..57343 : mem_rd(sys, a) = {ImageByte(desc.rom_basic, a - 49152)}
    /\ \A a \in 57344..65535 : mem_rd(sys, a) = {ImageByte(desc.rom_kernal, a - 57344)}

(***************************************************************************)
(* C4: with joystick emulation enabled, a key-down of a designated key     *)
(* code sets, and a key-up clears, exactly the key's bit in the keyboard   *)
(* mask of every joystick active in the current mode, and the keyboard     *)
(* mask of a joystick that is not active keeps its value.                  *)
(***************************************************************************)
C4_JoyKeySetsActiveMasks ==
    [][(/\ op'.name \in {"vic20_key_down", "vic20_key_up"}
        /\ sys.joystick_type # VIC20_JOYSTICKTYPE_NONE
        /\ op'.arg \in DesignatedKeys) =>
          LET b == DesignatedBit[op'.arg]
              After(m) == IF op'.name = "vic20_key_down" THEN Bits(m) \cup {b}
                          ELSE Bits(m) \ {b}
          IN  /\ Bits(sys'.kbd_joy1_mask) =
                    IF Active1(sys.joystick_type) THEN After(sys.kbd_joy1_mask)
                    ELSE Bits(sys.kbd_joy1_mask)
              /\ Bits(sys'.kbd_joy2_mask) =
                    IF Active2(sys.joystick_type) THEN After(sys.kbd_joy2_mask)
                    ELSE Bits(sys.kbd_joy2_mask)]_vars

C4_Witness ==
    /\ op.name = "vic20_key_up"
    /\ op.arg = 8
    /\ sys.joystick_type = VIC20_JOYSTICKTYPE_DIGITAL_12
    /\ sys.kbd_joy1_mask = VIC20_JOYSTICK_UP
    /\ sys.kbd_joy2_mask = VIC20_JOYSTICK_UP

(***************************************************************************)
(* C5: a key event reaches the keyboard matrix exactly when it is not      *)
(* intercepted.  With emulation disabled, or for a key code that is not    *)
(* designated, the one call the operation makes is kbd_key_down (or        *)
(* kbd_key_up) with that key code, and no joystick mask changes; with      *)
(* emulation enabled a designated key code makes no call to the matrix     *)
(* and leaves its state as it was.                                         *)
(***************************************************************************)
C5_KeyForwarding ==
    [][op'.name \in {"vic20_key_down", "vic20_key_up"} =>
          IF sys.joystick_type # VIC20_JOYSTICKTYPE_NONE /\ op'.arg \in DesignatedKeys
          THEN /\ trace' = <<>>
               /\ sys'.kbd = sys.kbd
          ELSE /\ JoyMasks(sys') = JoyMasks(sys)
               /\ IF op'.name = "vic20_key_down"
                  THEN trace' = << <<"kbd_key_down", op'.arg>> >>
                  ELSE trace' = << <<"kbd_key_up", op'.arg>> >>]_vars

C5_Witness ==
    /\ op.name = "vic20_key_down"
    /\ op.arg = 11
    /\ sys.joystick_type = VIC20_JOYSTICKTYPE_DIGITAL_1
    /\ sys.kbd_joy1_mask = VIC20_JOYSTICK_UP
    /\ sys.kbd = {65}
    /\ trace = <<>>

(***************************************************************************)
(* C6: in every reachable state the joystick lines the port-in callbacks   *)
(* deliver for a joystick (a pressed direction pulls its line low) are     *)
(* the bitwise OR of that joystick's keyboard mask and its direct mask.    *)
(* The callbacks do not depend on the port or on the joystick, so the      *)
(* lines are read from every port of the joystick's chip.                  *)
(***************************************************************************)
JoyLinesIn1 == BitAnd(BitNot8(BitAnd(vic20_via1_in(sys, 0), vic20_via1_in(sys, 1))), 31)

JoyLinesIn2 == BitAnd(BitNot8(BitAnd(vic20_via2_in(sys, 0), vic20_via2_in(sys, 1))), 31)

C6_JoystickOverlay ==
    /\ Bits(JoyLinesIn1) = Bits(sys.kbd_joy1_mask) \cup Bits(sys.joy_joy1_mask)
    /\ Bits(JoyLinesIn2) = Bits(sys.kbd_joy2_mask) \cup Bits(sys.joy_joy2_mask)

(***************************************************************************)
(* C7: right after vic20_reset the four joystick masks are zero, the       *)
(* RESET line is asserted in the pin mask, and both M6522 and the M6561    *)
(* are in their reset state.                                               *)
(***************************************************************************)
C7_ResetState ==
    op.name = "vic20_reset" =>
        /\ JoyMasks(sys) = <<0, 0, 0, 0>>
        /\ "RES" \in sys.pins
        /\ sys.via_1.st = "reset"
        /\ sys.via_2.st = "reset"
        /\ sys.vic.st = "reset"
        /\ \A c \in {<<"m6522_reset", "via_1">>, <<"m6522_reset", "via_2">>,
                     <<"m6561_reset", "vic">>} :
               Cardinality({i \in DOMAIN trace : trace[i] = c}) = 1

C7_Witness ==
    /\ op.name = "vic20_reset"
    /\ steps >= 2
    /\ sys.kbd # {}
    /\ "RES" \in sys.pins

(***************************************************************************)
(* C8: reset is idempotent: in the state a vic20_reset has produced, one   *)
(* more vic20_reset yields the same instance.                              *)
(***************************************************************************)
C8_ResetIdempotent ==
    op.name = "vic20_reset" => vic20_reset_upd(sys).sys = sys

C8_Witness ==
    /\ op.name = "vic20_reset"
    /\ sys.joystick_type = VIC20_JOYSTICKTYPE_DIGITAL_2
    /\ sys.via_1.st = "reset"
    /\ vic20_reset_upd(vic20_reset_upd(sys).sys).sys = sys

(***************************************************************************)
(* C9: a system tick ticks the CPU, both M6522 and the M6561 once each,    *)
(* and the IRQ line of the pin mask it leaves is the OR of the interrupt   *)
(* outputs of the three chips.                                             *)
(***************************************************************************)
C9_TickWiresChips ==
    [][op'.name = "vic20_tick" =>
          /\ sys'.cpu.ticks = sys.cpu.ticks + 1
          /\ sys'.via_1.ticks = sys.via_1.ticks + 1
          /\ sys'.via_2.ticks = sys.via_2.ticks + 1
          /\ sys'.vic.ticks = sys.vic.ticks + 1
          /\ ("IRQ" \in sys'.pins) = (sys'.via_1.irq \/ sys'.via_2.irq \/ sys'.vic.irq)]_vars

(***************************************************************************)
(* C11: vic20_exec(us) makes exactly clk_us_to_ticks(1108404, us) system   *)
(* ticks, the first on the pin mask of the instance and each further one   *)
(* on the pin mask the tick before it returned, stores the last pin mask   *)
(* in the instance, and then makes exactly one kbd_update, the last call,  *)
(* also when there is no tick; vic20_tick makes no kbd_update.             *)
(***************************************************************************)
C11_ExecTicksThenDebounce ==
    [][/\ op'.name = "vic20_exec" =>
            LET n == clk_us_to_ticks(1108404, op'.arg)
            IN  /\ Len(trace') = n + 1
                /\ \A i \in 1..n :
                       /\ trace'[i][1] = "_vic20_tick"
                       /\ trace'[i][2] = IF i = 1 THEN sys.pins ELSE trace'[i - 1][3]
                /\ trace'[n + 1] = <<"kbd_update">>
                /\ sys'.pins = IF n = 0 THEN sys.pins ELSE trace'[n][3]
       /\ op'.name = "vic20_tick" =>
            /\ Len(trace') = 1
            /\ trace'[1][1] = "_vic20_tick"]_vars

C11_Witness ==
    /\ op.name = "vic20_exec"
    /\ op.arg = 2
    /\ Len(trace) = 3
    /\ trace[3] = <<"kbd_update">>

(***************************************************************************)
(* C12: the windows vic20_init configures partition the address space: no  *)
(* two of them (start address, length) overlap, so every address           *)
(* 0x0000..0xFFFF is owned by at most one window, and by open bus          *)
(* otherwise.                                                              *)
(***************************************************************************)
C12_WindowsDisjoint ==
    \A i, j \in DOMAIN sys.mem_cpu :
        i < j =>
            LET v == sys.mem_cpu[i]
                w == sys.mem_cpu[j]
            IN  \/ v.addr + v.size <= w.addr
                \/ w.addr + w.size <= v.addr

(***************************************************************************)
(* C14: in every reachable state, each port-in callback of both M6522      *)
(* returns 0xFF, all eight lines high, for either port.                    *)
(***************************************************************************)
C14_PortInIdle ==
    \A port_id \in {0, 1} :
        /\ vic20_via1_in(sys, port_id) = 255
        /\ vic20_via2_in(sys, port_id) = 255

C14_Witness ==
    /\ op.name = "vic20_joystick"
    /\ sys.joy_joy1_mask # 0
    /\ sys.kbd_joy2_mask # 0
    /\ Bits(vic20_via1_in(sys, 0)) = 0..7
    /\ Bits(vic20_via2_in(sys, 1)) = 0..7

(***************************************************************************)
(* C17: in every reachable state the four joystick masks hold only the     *)
(* up, down, left, right and button bits: each is at most 0x1F.            *)
(***************************************************************************)
C17_MasksFiveBit ==
    /\ sys.kbd_joy1_mask <= 31
    /\ sys.kbd_joy2_mask <= 31
    /\ sys.joy_joy1_mask <= 31
    /\ sys.joy_joy2_mask <= 31

(***************************************************************************)
(* C19: every window of the memory map is no longer than the array that    *)
(* backs it and ends at or below address 0xFFFF.                           *)
(***************************************************************************)
C19_WindowsWithinArrays ==
    \A k \in DOMAIN sys.mem_cpu :
        LET w == sys.mem_cpu[k]
        IN  /\ w.size <= sys[w.ptr].size
            /\ w.addr + w.size - 1 <= 65535

(***************************************************************************)
(* C13: vic20_init fails its assertions when a pixel buffer is given whose *)
(* size is below the maximum frame buffer size, when a ROM image is        *)
(* missing or its size is not 4 KB (character) or 8 KB (BASIC, KERNAL),    *)
(* or when the audio sample count exceeds 1024; for every other            *)
(* description construction succeeds and the instance is valid.            *)
(***************************************************************************)
DescRejected(d) ==
    \/ d.pixel_buffer /\ d.pixel_buffer_size < VIC20_DISPLAY_SIZE
    \/ d.rom_char = 0 \/ d.rom_char_size # 4096
    \/ d.rom_basic = 0 \/ d.rom_basic_size # 8192
    \/ d.rom_kernal = 0 \/ d.rom_kernal_size # 8192
    \/ d.audio_num_samples > 1024

C13_InitPreconditions ==
    /\ (op.name = "CHIPS_ASSERT" /\ op.arg.name = "vic20_init") => DescRejected(op.arg.arg)
    /\ op.name = "vic20_init" => (~DescRejected(desc) /\ sys.valid)

C13_Witness ==
    /\ op.name = "CHIPS_ASSERT"
    /\ op.arg.name = "vic20_init"
    /\ op.arg.arg.rom_kernal_size = ROM_KERNAL_SIZE - 1
    /\ steps >= 2

(***************************************************************************)
(* C18: a key-down followed by the key-up of the same key code, with only  *)
(* vic20_set_joystick_type calls between them, leaves no bit set in a      *)
(* keyboard mask and no key pressed in the matrix that was not set or      *)
(* pressed before the key-down.                                            *)
(***************************************************************************)
C18_ReleaseUndoesPress ==
    [][(op'.name = "vic20_key_up" /\ press.key = op'.arg) =>
          /\ Bits(sys'.kbd_joy1_mask) \subseteq Bits(press.joy1)
          /\ Bits(sys'.kbd_joy2_mask) \subseteq Bits(press.joy2)
          /\ sys'.kbd \subseteq press.kbd]_vars

(***************************************************************************)
(* C20: on a discarded instance every public operation other than          *)
(* vic20_init fails its validity assertion and leaves the instance as it   *)
(* is.                                                                     *)
(***************************************************************************)
C20_DiscardedRejectsCalls ==
    [][(~sys.valid /\ op'.name # "vic20_init") =>
          (op'.name = "CHIPS_ASSERT" /\ sys' = sys)]_vars

====
